---- MODULE Spec2Model ----
(***************************************************************************)
(* plugin_tls: thread-local and lazily initialised static values shared    *)
(* across dynamic library boundaries (src/src/lib.rs).                     *)
(*                                                                         *)
(* The host image owns two registries: PLUGIN_TLS (one map per thread,     *)
(* behind a RefCell) and PLUGIN_STATIC (one map per process, behind a      *)
(* Mutex created through PLUGIN_STATIC_ONCE).  Every image has its own     *)
(* HOST_TLS / HOST_STATICS slots and, per declaration, its own cache of    *)
(* the address it got from the registry (the std thread_local VALUE of     *)
(* thread_local!, the VALUE_ONCE / VALUE pair of lazy_static!).            *)
(*                                                                         *)
(* Specifications:                                                         *)
(*   Spec        threads accessing values, resetting, installing a plugin  *)
(*   NestedSpec  Spec plus initializers that access the registries         *)
(*   LiveSpec    concurrent accesses with returning initializers, under    *)
(*               weak fairness of every thread's steps                     *)
(*   DeclSpec    the identifiers the macros build for declarations         *)
(***************************************************************************)
EXTENDS Integers, Sequences, FiniteSets, TLC

(* ----------------------------- bounds ---------------------------------- *)
MaxResets == 1      \* resets that run to the end of host::reset
NAddrs    == 2      \* heap addresses an RBox can be allocated at
MaxVal    == 1      \* mutations of one boxed value through LocalKey::with / deref
MaxText   == 2      \* characters of a declaration's name and of its type text
NDecls    == 2      \* declarations expanded by thread_local! / lazy_static!
MaxDepth  == 2      \* calls of one thread in progress at once (an access made by an initializer)

Threads == {"t1", "t2"}
Images  == {"host", "plugin"}
Ids     == {"k1", "k2"}          \* RStr identifiers (concat! of name, type, module path)
Addrs   == 1..NAddrs
Null    == 0                     \* no address / key absent
Free    == -1                    \* heap cell not allocated
NoThread == "none"

VARIABLES
    PLUGIN_TLS,          \* [Threads -> [Ids -> Null or address of the RBox]]
    PLUGIN_STATIC,       \* [Ids -> Null or address of the RBox]
    PLUGIN_STATIC_ONCE,  \* TRUE once static_map() has created the map
    mutex,               \* [holder, poisoned] of the Mutex around PLUGIN_STATIC
    HOST_TLS,            \* [Images -> BOOLEAN]: Some(host::tls) or None
    HOST_STATICS,        \* [Images -> BOOLEAN]: Some(host::statics) or None
    TLS_VALUE,           \* [Images -> [Threads -> [Ids -> Null or address]]]: thread_local VALUE
    VALUE_ONCE,          \* [Images -> [Ids -> "new" | "running" | "done" | "poisoned"]]
    STATIC_VALUE,        \* [Images -> [Ids -> Null or address]]: lazy_static VALUE
    heap,                \* [Addrs -> Free or the boxed value]
    stack,               \* [Threads -> sequence of frames of calls in progress]
    res,                 \* [Threads -> record of the last finished call]
    aborted,             \* "no", or the place where a panic aborted the process
    tlsEpoch,            \* [Threads -> number of times the thread's registry was cleared]
    staticEpoch,         \* number of times the static registry was cleared
    staticInits,         \* [Ids -> runs of the initializer since the static registry was cleared]
    staticDone,          \* [Ids -> address returned by a finished static access since the clear]
    running,             \* the threads the program has started
    tlsDecls,            \* identifiers declared with thread_local! (in every image)
    staticDecls,         \* identifiers declared with lazy_static! (in every image)
    staticFailed,        \* [Ids -> TRUE once a run of the static initializer has panicked]
    decls,               \* the declarations expanded so far, each with the identifier built for it
    tlsFirst             \* [Threads -> [Images -> [Ids -> address the first access since the thread's clear returned]]]

vars == <<PLUGIN_TLS, PLUGIN_STATIC, PLUGIN_STATIC_ONCE, mutex, HOST_TLS, HOST_STATICS,
          TLS_VALUE, VALUE_ONCE, STATIC_VALUE, heap, stack, res, aborted,
          tlsEpoch, staticEpoch, staticInits, staticDone, staticFailed, tlsFirst,
          running, tlsDecls, staticDecls, decls>>

(* ------------------------- records and helpers ------------------------- *)
\* A call in progress: which operation, through which image's declaration,
\* for which identifier, where it stands, and what it has seen so far:
\*   ran        the call has entered the initializer
\*   e0         the clears of the registry when the call began (of a reset: the
\*              clears of the other threads' registries when it began)
\*   seen       the address an earlier finished call returned for the identifier
\*   had        the registry had the entry when the call reached it (of a reset:
\*              another thread, outside any call, had entries when it began)
\*   after      a run of this identifier's static initializer had panicked before
\*   afterOther a run of another static identifier's initializer had panicked before
\*   within     the identifier whose initializer makes the call ("none": the program)
\*   withinOp   the registry of that identifier: "tls", "static" or "none"
Frame(op, img, k, pc) ==
    [op |-> op, img |-> img, k |-> k, pc |-> pc, ran |-> FALSE,
     e0 |-> 0, seen |-> Null, had |-> FALSE, after |-> FALSE, addr |-> Null,
     within |-> "none", withinOp |-> "none", afterOther |-> FALSE]

\* The last finished call of a thread, kept until the caller goes on.
NoRes ==
    [op |-> "none", img |-> "host", k |-> "k1", status |-> "none", hit |-> "none",
     out |-> Null, ran |-> FALSE, e0 |-> 0, seen |-> Null, had |-> FALSE, after |-> FALSE,
     within |-> "none", withinOp |-> "none", afterOther |-> FALSE]

Result(f, status, hit, out) ==
    [op |-> f.op, img |-> f.img, k |-> f.k, status |-> status, hit |-> hit,
     out |-> out, ran |-> f.ran, e0 |-> f.e0, seen |-> f.seen, had |-> f.had,
     after |-> f.after, within |-> f.within, withinOp |-> f.withinOp,
     afterOther |-> f.afterOther]

Alive    == aborted = "no"
Top(t)   == stack[t][Len(stack[t])]
Idle(t)  == t \in running /\ stack[t] = << >> /\ res[t].op = "none"
InCall(t, op, pc) ==
    /\ stack[t] # << >>
    /\ Top(t).op = op
    /\ Top(t).pc = pc
Push(t, f)    == [stack EXCEPT ![t] = Append(@, f)]
Pop(t)        == [stack EXCEPT ![t] = SubSeq(@, 1, Len(@) - 1)]
SetTop(t, f)  == [stack EXCEPT ![t] = [@ EXCEPT ![Len(@)] = f]]

\* RStr::from_str(concat!(stringify!($name), stringify!($t), module_path!())):
\* the same declaration gives the same identifier in whichever image it is compiled.
IdentifierPerImage(img, k) ==
    IF img = "host" THEN k ELSE CHOOSE j \in Ids : j # k
Identifier(img, k) == k

\* Map<RStr, RBox<()>> operations used by the registries.
EmptyMap            == [i \in Ids |-> Null]
ContainsKeyNever(m, id) == FALSE
ContainsKey(m, id)  == m[id] # Null
MapGetFirst(m, id)  == m["k1"]
MapGet(m, id)       == m[id]
MapInsertReplacing(m, id, a) == [i \in Ids |-> IF i = id THEN a ELSE Null]
MapInsert(m, id, a) == [m EXCEPT ![id] = a]
MapClearKeeps(m)    == m
MapClear(m)         == EmptyMap
Boxes(m)            == {m[i] : i \in Ids} \ {Null}

\* RBox::new allocates at any address that holds no live box; dropping a map
\* entry frees its box, and the address may be handed out again.
FreeAddrs   == {a \in Addrs : heap[a] = Free}
ReleaseAll(h, as) == [a \in Addrs |-> Free]
Release(h, as) == [a \in Addrs |-> IF a \in as THEN Free ELSE h[a]]

\* std::thread_local!: the map PLUGIN_TLS.with hands to a thread is its own.
TlsOwnerShared(t) == "t1"
TlsOwner(t) == t

\* std::thread_local! VALUE of a declaration: one slot per thread.
TlsCachedShared(img, t, k) == TLS_VALUE[img]["t1"][k]
TlsCached(img, t, k) == TLS_VALUE[img][t][k]

\* HOST_TLS / HOST_STATICS .as_ref().expect(..): the slot holds an accessor.
InstalledAlways(slot, img) == TRUE
Installed(slot, img) == slot[img]

\* The MutexGuard goes out of scope when host::statics returns: the Mutex is free.
LeakGuard(mx) == mx
DropGuard(mx) == [mx EXCEPT !.holder = NoThread]

\* Mutex::lock blocks while another guard is alive.
LockAlwaysAvailable == TRUE
LockAvailable == mutex.holder = NoThread

\* A panic that unwinds into an extern "C" frame (__thread_local_init,
\* __initialize, host::tls, host::statics, __thread_local_read): the build either
\* aborts the process there or lets the unwinding go on to the Rust caller.
ExternCPanic == {"unwind", "abort"}

ResetsBegun == tlsEpoch["t1"] + tlsEpoch["t2"]

\* The programs explored: which threads run and which values are declared.
Programs ==
    { [threads |-> Threads, tls |-> {"k1"}, statics |-> {}],
      [threads |-> {"t1"},  tls |-> Ids,    statics |-> {}],
      [threads |-> Threads, tls |-> {},     statics |-> {"k1"}],
      [threads |-> {"t1"},  tls |-> {},     statics |-> Ids],
      [threads |-> {"t1"},  tls |-> {"k1"}, statics |-> {"k2"}] }

(* ------------------------------- Init ---------------------------------- *)
\* The state after construction of a program of the set P.
Start(P) ==
    /\ PLUGIN_TLS = [t \in Threads |-> EmptyMap]
    /\ PLUGIN_STATIC = EmptyMap
    /\ PLUGIN_STATIC_ONCE = FALSE
    /\ mutex = [holder |-> NoThread, poisoned |-> FALSE]
    /\ HOST_TLS = [i \in Images |-> i = "host"]
    /\ HOST_STATICS = [i \in Images |-> i = "host"]
    /\ TLS_VALUE = [i \in Images |-> [t \in Threads |-> EmptyMap]]
    /\ VALUE_ONCE = [i \in Images |-> [k \in Ids |-> "new"]]
    /\ STATIC_VALUE = [i \in Images |-> EmptyMap]
    /\ heap = [a \in Addrs |-> Free]
    /\ stack = [t \in Threads |-> << >>]
    /\ res = [t \in Threads |-> NoRes]
    /\ aborted = "no"
    /\ tlsEpoch = [t \in Threads |-> 0]
    /\ staticEpoch = 0
    /\ staticInits = [k \in Ids |-> 0]
    /\ staticDone = EmptyMap
    /\ staticFailed = [k \in Ids |-> FALSE]
    /\ \E sc \in P :
          /\ running = sc.threads
          /\ tlsDecls = sc.tls
          /\ staticDecls = sc.statics
    /\ tlsFirst = [t \in Threads |-> [i \in Images |-> EmptyMap]]
    /\ decls = {}

Init == Start(Programs)

registry == <<PLUGIN_TLS, PLUGIN_STATIC, PLUGIN_STATIC_ONCE, mutex>>
slots    == <<HOST_TLS, HOST_STATICS>>
caches   == <<TLS_VALUE, VALUE_ONCE, STATIC_VALUE>>
program  == <<running, tlsDecls, staticDecls, decls>>
history  == <<tlsEpoch, staticEpoch, staticInits, staticDone, staticFailed, tlsFirst, program>>

NoteFirst(t, img, k, a) ==
    IF tlsFirst[t][img][k] = Null THEN [tlsFirst EXCEPT ![t][img][k] = a] ELSE tlsFirst

\* The process dies (abort), or the panic goes on to the caller of thread t,
\* whose call in progress f ends with it.
Abort(site) == aborted' = site /\ UNCHANGED <<stack, res>>
Unwind(t, f, hit) ==
    /\ res' = [res EXCEPT ![t] = Result(f, "panic", hit, Null)]
    /\ stack' = [stack EXCEPT ![t] = << >>]
    /\ UNCHANGED aborted

\* RefCell::borrow_mut of the thread's map panics ("already borrowed") while a
\* RefMut is alive: host::tls keeps its RefMut while init() runs.
HoldsRefMutNever(t) == FALSE
HoldsRefMut(t) ==
    \E i \in 1..Len(stack[t]) : stack[t][i].op = "tls" /\ stack[t][i].pc = "init"

\* The thread is inside an initializer, which may access the registries itself.
InInitializer(t) ==
    /\ t \in running
    /\ stack[t] # << >>
    /\ Top(t).pc = "init"
    /\ Len(stack[t]) < MaxDepth

\* What unwinding through the calls in progress of thread t leaves behind: the
\* MutexGuard of host::statics is dropped during a panic (the Mutex is poisoned),
\* and every call_once closure the panic leaves poisons its Once.
MutexAfterPanic(t) ==
    IF mutex.holder = t THEN [holder |-> NoThread, poisoned |-> TRUE] ELSE mutex
OnceAfterPanic(t, more) ==
    [i \in Images |-> [k \in Ids |->
        IF \/ <<i, k>> \in more
           \/ \E j \in 1..Len(stack[t]) :
                 stack[t][j].op = "static" /\ stack[t][j].img = i /\ stack[t][j].k = k
        THEN "poisoned" ELSE VALUE_ONCE[i][k]]]
FailedAfterPanic(t) ==
    [k \in Ids |->
        \/ staticFailed[k]
        \/ \E j \in 1..Len(stack[t]) :
              /\ stack[t][j].op = "static" /\ stack[t][j].pc = "init"
              /\ Identifier(stack[t][j].img, stack[t][j].k) = k]

\* A panic raised in call f of thread t below an initializer: it leaves extern "C"
\* frames (abort, or unwinding that goes on), and unwinding ends every call in
\* progress of the thread; more names the Once cells poisoned besides.
PanicInInitializer(t, f, hit, site, more) ==
    \E o \in ExternCPanic :
       \/ o = "abort" /\ Abort(site) /\ UNCHANGED <<mutex, VALUE_ONCE, staticFailed>>
       \/ /\ o = "unwind"
          /\ res' = [res EXCEPT ![t] = Result(f, "panic", hit, Null)]
          /\ stack' = [stack EXCEPT ![t] = << >>]
          /\ mutex' = MutexAfterPanic(t)
          /\ VALUE_ONCE' = OnceAfterPanic(t, more)
          /\ staticFailed' = FailedAfterPanic(t)
          /\ UNCHANGED aborted

(* ----------------------- thread-local access --------------------------- *)
\* LocalKey::with -> __thread_local_read -> VALUE.with; on the thread's first use
\* of this declaration VALUE is computed by __get_tls -> host::tls, up to the
\* call of init().
TlsWith(t, img, k) ==
    /\ Alive
    /\ k \in tlsDecls
    /\ Idle(t)
    /\ LET m == PLUGIN_TLS[TlsOwner(t)]
           id == Identifier(img, k)
           f == [Frame("tls", img, k, "init") EXCEPT
                    !.e0 = tlsEpoch[t], !.had = (PLUGIN_TLS[t][k] # Null),
                    !.seen = tlsFirst[t][img][k],
                    !.afterOther = (\E j \in Ids : staticFailed[j])]
       IN
       \/ /\ TlsCached(img, t, k) # Null
          /\ res' = [res EXCEPT ![t] = Result(f, "ok", "cache", TlsCached(img, t, k))]
          /\ tlsFirst' = NoteFirst(t, img, k, TlsCached(img, t, k))
          /\ UNCHANGED <<registry, slots, caches, heap, stack, aborted,
                         tlsEpoch, staticEpoch, staticInits, staticDone, staticFailed, program>>
       \/ /\ TlsCached(img, t, k) = Null
          /\ ~Installed(HOST_TLS, img)   \* expect("host thread local storage improperly initialized")
          /\ \E o \in ExternCPanic :
                \/ o = "abort" /\ Abort("tls_slot")
                \/ o = "unwind" /\ Unwind(t, f, "none")
          /\ UNCHANGED <<registry, slots, caches, heap, history>>
       \/ /\ TlsCached(img, t, k) = Null
          /\ Installed(HOST_TLS, img)
          /\ ContainsKey(m, id)
          /\ res' = [res EXCEPT ![t] = Result(f, "ok", "registry", MapGet(m, id))]
          /\ TLS_VALUE' = [TLS_VALUE EXCEPT ![img][t][k] = MapGet(m, id)]
          /\ tlsFirst' = NoteFirst(t, img, k, MapGet(m, id))
          /\ UNCHANGED <<registry, slots, VALUE_ONCE, STATIC_VALUE, heap, stack, aborted,
                         tlsEpoch, staticEpoch, staticInits, staticDone, staticFailed, program>>
       \/ /\ TlsCached(img, t, k) = Null
          /\ Installed(HOST_TLS, img)
          /\ ~ContainsKey(m, id)
          /\ stack' = Push(t, [f EXCEPT !.ran = TRUE])
          /\ UNCHANGED <<registry, slots, caches, heap, res, aborted, history>>

\* init() returns the box: m.insert(id, box), m.get(id), VALUE is set, with() goes on.
TlsInitReturns(t) ==
    /\ Alive
    /\ InCall(t, "tls", "init")
    /\ LET f == Top(t) IN
       \E a \in FreeAddrs :
          LET id == Identifier(f.img, f.k)
              m2 == MapInsert(PLUGIN_TLS[TlsOwner(t)], id, a)
          IN
          /\ heap' = [heap EXCEPT ![a] = 0]
          /\ PLUGIN_TLS' = [PLUGIN_TLS EXCEPT ![TlsOwner(t)] = m2]
          /\ TLS_VALUE' = [TLS_VALUE EXCEPT ![f.img][t][f.k] = MapGet(m2, id)]
          /\ res' = [res EXCEPT ![t] = Result(f, "ok", "registry", MapGet(m2, id))]
          /\ tlsFirst' = NoteFirst(t, f.img, f.k, MapGet(m2, id))
          /\ stack' = Pop(t)
    /\ UNCHANGED <<PLUGIN_STATIC, PLUGIN_STATIC_ONCE, mutex, slots, VALUE_ONCE, STATIC_VALUE,
                   aborted, tlsEpoch, staticEpoch, staticInits, staticDone, staticFailed, program>>

\* init() panics: the RefMut is dropped, nothing was inserted, VALUE stays unset
\* (and the initializers this access was made from end with the panic too).
TlsInitPanics(t) ==
    /\ Alive
    /\ InCall(t, "tls", "init")
    /\ PanicInInitializer(t, Top(t), "registry", "tls_init", {})
    /\ UNCHANGED <<PLUGIN_TLS, PLUGIN_STATIC, PLUGIN_STATIC_ONCE, slots, TLS_VALUE,
                   STATIC_VALUE, heap, tlsEpoch, staticEpoch, staticInits, staticDone,
                   tlsFirst, program>>

(* -------------------------- static access ------------------------------ *)
\* deref: VALUE_ONCE.call_once, then VALUE.assume_init_read().
StaticDeref(t, img, k) ==
    /\ Alive
    /\ k \in staticDecls
    /\ Idle(t)
    /\ LET f == [Frame("static", img, k, "get_static") EXCEPT
                    !.e0 = staticEpoch, !.after = staticFailed[Identifier(img, k)],
                    !.afterOther = (\E j \in Ids \ {Identifier(img, k)} : staticFailed[j])]
       IN
       \/ /\ VALUE_ONCE[img][k] = "done"
          /\ res' = [res EXCEPT ![t] = Result(f, "ok", "cache", STATIC_VALUE[img][k])]
          /\ UNCHANGED <<stack, VALUE_ONCE>>
       \/ /\ VALUE_ONCE[img][k] = "poisoned"
          /\ res' = [res EXCEPT ![t] = Result(f, "panic", "none", Null)]
          /\ UNCHANGED <<stack, VALUE_ONCE>>
       \/ /\ VALUE_ONCE[img][k] = "new"
          /\ VALUE_ONCE' = [VALUE_ONCE EXCEPT ![img][k] = "running"]
          /\ stack' = Push(t, f)
          /\ UNCHANGED res
    /\ UNCHANGED <<registry, slots, TLS_VALUE, STATIC_VALUE, heap, aborted, history>>

\* __get_static: HOST_STATICS.as_ref().expect(..), then the call of host::statics.
StaticGetStatic(t) ==
    /\ Alive
    /\ InCall(t, "static", "get_static")
    /\ LET f == Top(t) IN
       \/ /\ ~Installed(HOST_STATICS, f.img)   \* expect("host static storage improperly initialized")
          /\ VALUE_ONCE' = [VALUE_ONCE EXCEPT ![f.img][f.k] = "poisoned"]
          /\ Unwind(t, f, "none")
       \/ /\ Installed(HOST_STATICS, f.img)
          /\ stack' = SetTop(t, [f EXCEPT !.pc = "lock", !.e0 = staticEpoch,
                                           !.seen = staticDone[Identifier(f.img, f.k)]])
          /\ UNCHANGED <<VALUE_ONCE, res, aborted>>
    /\ UNCHANGED <<registry, slots, TLS_VALUE, STATIC_VALUE, heap, history>>

\* host::statics: static_map() creates the map once and locks it; contains_key.
StaticLock(t) ==
    /\ Alive
    /\ InCall(t, "static", "lock")
    /\ LockAvailable
    /\ PLUGIN_STATIC_ONCE' = TRUE
    /\ LET f == Top(t)
           id == Identifier(f.img, f.k)
       IN
       \/ /\ mutex.poisoned          \* lock().unwrap() on a PoisonError
          /\ \E o \in ExternCPanic :
                \/ o = "abort" /\ Abort("static_lock") /\ UNCHANGED VALUE_ONCE
                \/ /\ o = "unwind"
                   /\ Unwind(t, f, "registry")
                   /\ VALUE_ONCE' = [VALUE_ONCE EXCEPT ![f.img][f.k] = "poisoned"]
          /\ UNCHANGED <<mutex, staticInits>>
       \/ /\ ~mutex.poisoned
          /\ ContainsKey(PLUGIN_STATIC, id)
          /\ mutex' = [mutex EXCEPT !.holder = t]
          /\ stack' = SetTop(t, [f EXCEPT !.pc = "ret", !.had = TRUE,
                                           !.addr = MapGet(PLUGIN_STATIC, id)])
          /\ UNCHANGED <<VALUE_ONCE, res, aborted, staticInits>>
       \/ /\ ~mutex.poisoned
          /\ ~ContainsKey(PLUGIN_STATIC, id)
          /\ mutex' = [mutex EXCEPT !.holder = t]
          /\ staticInits' = [staticInits EXCEPT ![id] = @ + 1]
          /\ stack' = SetTop(t, [f EXCEPT !.pc = "init", !.ran = TRUE])
          /\ UNCHANGED <<VALUE_ONCE, res, aborted>>
    /\ UNCHANGED <<PLUGIN_TLS, PLUGIN_STATIC, slots, TLS_VALUE, STATIC_VALUE, heap,
                   tlsEpoch, staticEpoch, staticDone, staticFailed, tlsFirst, program>>

\* init() returns the box while the guard is held: m.insert(id, box), m.get(id).
StaticInitReturns(t) ==
    /\ Alive
    /\ InCall(t, "static", "init")
    /\ LET f == Top(t) IN
       \E a \in FreeAddrs :
          LET id == Identifier(f.img, f.k)
              m2 == MapInsert(PLUGIN_STATIC, id, a)
          IN
          /\ heap' = [heap EXCEPT ![a] = 0]
          /\ PLUGIN_STATIC' = m2
          /\ stack' = SetTop(t, [f EXCEPT !.pc = "ret", !.addr = MapGet(m2, id)])
    /\ UNCHANGED <<PLUGIN_TLS, PLUGIN_STATIC_ONCE, mutex, slots, caches, res, aborted, history>>

\* init() panics while the guard is held: dropping the guard poisons the Mutex,
\* and the closure of VALUE_ONCE.call_once ends by the panic.
StaticInitPanics(t) ==
    /\ Alive
    /\ InCall(t, "static", "init")
    /\ LET f == Top(t) IN
       \E o \in ExternCPanic :
          \/ o = "abort" /\ Abort("static_init") /\ UNCHANGED <<mutex, VALUE_ONCE, staticFailed>>
          \/ /\ o = "unwind"
             /\ mutex' = [holder |-> NoThread, poisoned |-> TRUE]
             /\ VALUE_ONCE' = [VALUE_ONCE EXCEPT ![f.img][f.k] = "poisoned"]
             /\ staticFailed' = [staticFailed EXCEPT ![Identifier(f.img, f.k)] = TRUE]
             /\ Unwind(t, f, "registry")
    /\ UNCHANGED <<PLUGIN_TLS, PLUGIN_STATIC, PLUGIN_STATIC_ONCE, slots, TLS_VALUE,
                   STATIC_VALUE, heap, tlsEpoch, staticEpoch, staticInits, staticDone,
                   tlsFirst, program>>

\* host::statics returns (the guard is dropped), VALUE.write(..), call_once is done.
StaticReturn(t) ==
    /\ Alive
    /\ InCall(t, "static", "ret")
    /\ LET f == Top(t)
           id == Identifier(f.img, f.k)
       IN
       /\ mutex' = DropGuard(mutex)
       /\ STATIC_VALUE' = [STATIC_VALUE EXCEPT ![f.img][f.k] = f.addr]
       /\ VALUE_ONCE' = [VALUE_ONCE EXCEPT ![f.img][f.k] = "done"]
       /\ res' = [res EXCEPT ![t] = Result(f, "ok", "registry", f.addr)]
       /\ staticDone' = IF staticDone[id] = Null
                        THEN [staticDone EXCEPT ![id] = f.addr] ELSE staticDone
       /\ stack' = Pop(t)
    /\ UNCHANGED <<PLUGIN_TLS, PLUGIN_STATIC, PLUGIN_STATIC_ONCE, slots, TLS_VALUE, heap,
                   aborted, tlsEpoch, staticEpoch, staticInits, staticFailed, tlsFirst, program>>

(* ------------------------------- reset --------------------------------- *)
\* Context::reset -> host::reset, first statement: PLUGIN_TLS.with(|m| m.borrow_mut().clear()).
Reset(t) ==
    /\ Alive
    /\ Idle(t)
    /\ ResetsBegun < MaxResets
    /\ heap' = Release(heap, Boxes(PLUGIN_TLS[TlsOwner(t)]))
    /\ PLUGIN_TLS' = [PLUGIN_TLS EXCEPT ![TlsOwner(t)] = MapClear(@)]
    /\ tlsEpoch' = [tlsEpoch EXCEPT ![t] = @ + 1]
    /\ tlsFirst' = [tlsFirst EXCEPT ![t] = [i \in Images |-> EmptyMap]]
    /\ stack' = Push(t, [Frame("reset", "host", "k1", "static") EXCEPT
                            !.had = (\E u \in Threads \ {t} :
                                        PLUGIN_TLS[u] # EmptyMap /\ Idle(u)),
                            !.e0 = ResetsBegun - tlsEpoch[t]])
    /\ UNCHANGED <<PLUGIN_STATIC, PLUGIN_STATIC_ONCE, mutex, slots, caches, res, aborted,
                   staticEpoch, staticInits, staticDone, staticFailed, program>>

\* host::reset, second statement: static_map().clear().
ResetStatics(t) ==
    /\ Alive
    /\ InCall(t, "reset", "static")
    /\ LockAvailable
    /\ PLUGIN_STATIC_ONCE' = TRUE
    /\ LET f == Top(t) IN
       \/ /\ mutex.poisoned          \* lock().unwrap() on a PoisonError
          /\ Unwind(t, f, "registry")
          /\ UNCHANGED <<PLUGIN_STATIC, heap, staticEpoch, staticInits, staticDone>>
       \/ /\ ~mutex.poisoned
          /\ heap' = Release(heap, Boxes(PLUGIN_STATIC))
          /\ PLUGIN_STATIC' = MapClear(PLUGIN_STATIC)
          /\ staticEpoch' = staticEpoch + 1
          /\ staticInits' = [k \in Ids |-> 0]
          /\ staticDone' = EmptyMap
          /\ res' = [res EXCEPT ![t] = Result(f, "ok", "registry", Null)]
          /\ stack' = Pop(t)
          /\ UNCHANGED aborted
    /\ UNCHANGED <<PLUGIN_TLS, mutex, slots, caches, tlsEpoch, staticFailed, tlsFirst, program>>

(* ----------------------------- the context ----------------------------- *)
\* Context::get() in the host, handed to image img, which calls initialize(self).
Install(t, img) ==
    /\ Alive
    /\ Idle(t)
    /\ HOST_TLS' = [HOST_TLS EXCEPT ![img] = TRUE]
    /\ HOST_STATICS' = [HOST_STATICS EXCEPT ![img] = TRUE]
    /\ UNCHANGED <<registry, caches, heap, stack, res, aborted, history>>

(* ------------------------------ the caller ----------------------------- *)
\* The closure given to with() (or the user of the &T of deref) changes the
\* value it was handed, while the box is alive.
Mutate(t) ==
    /\ Alive
    /\ stack[t] = << >>
    /\ res[t].op \in {"tls", "static"}
    /\ res[t].status = "ok"
    /\ heap[res[t].out] # Free
    /\ heap[res[t].out] < MaxVal
    /\ heap' = [heap EXCEPT ![res[t].out] = @ + 1]
    /\ UNCHANGED <<registry, slots, caches, stack, res, aborted, history>>

\* The call is over (returned, or its panic was caught) and the thread goes on.
Resume(t) ==
    /\ Alive
    /\ stack[t] = << >>
    /\ res[t].op # "none"
    /\ res' = [res EXCEPT ![t] = NoRes]
    /\ UNCHANGED <<registry, slots, caches, heap, stack, aborted, history>>

Next ==
    \/ \E t \in Threads, img \in Images, k \in Ids : TlsWith(t, img, k)
    \/ \E t \in Threads : TlsInitReturns(t)
    \/ \E t \in Threads : TlsInitPanics(t)
    \/ \E t \in Threads, img \in Images, k \in Ids : StaticDeref(t, img, k)
    \/ \E t \in Threads : StaticGetStatic(t)
    \/ \E t \in Threads : StaticLock(t)
    \/ \E t \in Threads : StaticInitReturns(t)
    \/ \E t \in Threads : StaticInitPanics(t)
    \/ \E t \in Threads : StaticReturn(t)
    \/ \E t \in Threads : Reset(t)
    \/ \E t \in Threads : ResetStatics(t)
    \/ \E t \in Threads : Install(t, "plugin")
    \/ \E t \in Threads : Mutate(t)
    \/ \E t \in Threads : Resume(t)

Spec == Init /\ [][Next]_vars

(* ------------------ accesses made by an initializer ------------------- *)
\* The initializer running on thread t uses LocalKey::with of declaration k of
\* image img: the same code as TlsWith, entered while calls are in progress.
TlsNested(t, img, k) ==
    /\ Alive
    /\ k \in tlsDecls
    /\ InInitializer(t)
    /\ LET m == PLUGIN_TLS[TlsOwner(t)]
           id == Identifier(img, k)
           f == [Frame("tls", img, k, "init") EXCEPT
                    !.e0 = tlsEpoch[t], !.had = (PLUGIN_TLS[t][k] # Null),
                    !.seen = tlsFirst[t][img][k],
                    !.within = Top(t).k, !.withinOp = Top(t).op]
       IN
       \/ /\ TlsCached(img, t, k) # Null
          /\ res' = [res EXCEPT ![t] = Result(f, "ok", "cache", TlsCached(img, t, k))]
          /\ tlsFirst' = NoteFirst(t, img, k, TlsCached(img, t, k))
          /\ UNCHANGED <<registry, slots, caches, heap, stack, aborted,
                         tlsEpoch, staticEpoch, staticInits, staticDone, staticFailed, program>>
       \/ /\ TlsCached(img, t, k) = Null
          /\ ~Installed(HOST_TLS, img)   \* expect("host thread local storage improperly initialized")
          /\ PanicInInitializer(t, f, "none", "tls_slot", {})
          /\ UNCHANGED <<PLUGIN_TLS, PLUGIN_STATIC, PLUGIN_STATIC_ONCE, slots, TLS_VALUE,
                         STATIC_VALUE, heap, tlsEpoch, staticEpoch, staticInits, staticDone,
                         tlsFirst, program>>
       \/ /\ TlsCached(img, t, k) = Null
          /\ Installed(HOST_TLS, img)
          /\ HoldsRefMut(t)              \* m.borrow_mut(): BorrowMutError
          /\ PanicInInitializer(t, f, "registry", "tls_borrow", {})
          /\ UNCHANGED <<PLUGIN_TLS, PLUGIN_STATIC, PLUGIN_STATIC_ONCE, slots, TLS_VALUE,
                         STATIC_VALUE, heap, tlsEpoch, staticEpoch, staticInits, staticDone,
                         tlsFirst, program>>
       \/ /\ TlsCached(img, t, k) = Null
          /\ Installed(HOST_TLS, img)
          /\ ~HoldsRefMut(t)
          /\ ContainsKey(m, id)
          /\ res' = [res EXCEPT ![t] = Result(f, "ok", "registry", MapGet(m, id))]
          /\ TLS_VALUE' = [TLS_VALUE EXCEPT ![img][t][k] = MapGet(m, id)]
          /\ tlsFirst' = NoteFirst(t, img, k, MapGet(m, id))
          /\ UNCHANGED <<registry, slots, VALUE_ONCE, STATIC_VALUE, heap, stack, aborted,
                         tlsEpoch, staticEpoch, staticInits, staticDone, staticFailed, program>>
       \/ /\ TlsCached(img, t, k) = Null
          /\ Installed(HOST_TLS, img)
          /\ ~HoldsRefMut(t)
          /\ ~ContainsKey(m, id)
          /\ stack' = Push(t, [f EXCEPT !.ran = TRUE])
          /\ UNCHANGED <<registry, slots, caches, heap, res, aborted, history>>

\* The initializer running on thread t dereferences lazy_static declaration k
\* of image img: VALUE_ONCE.call_once, then __get_static up to the accessor call.
\* A call_once on a Once that is running waits for it; std blocks a thread that
\* re-enters a Once it is running itself.
StaticNested(t, img, k) ==
    /\ Alive
    /\ k \in staticDecls
    /\ InInitializer(t)
    /\ LET f == [Frame("static", img, k, "get_static") EXCEPT
                    !.e0 = staticEpoch, !.after = staticFailed[Identifier(img, k)],
                    !.within = Top(t).k, !.withinOp = Top(t).op]
       IN
       \/ /\ VALUE_ONCE[img][k] = "done"
          /\ res' = [res EXCEPT ![t] = Result(f, "ok", "cache", STATIC_VALUE[img][k])]
          /\ UNCHANGED <<stack, VALUE_ONCE, mutex, aborted, staticFailed>>
       \/ /\ VALUE_ONCE[img][k] = "poisoned"
          /\ PanicInInitializer(t, f, "none", "static_once", {})
       \/ /\ VALUE_ONCE[img][k] = "running"
          /\ stack' = Push(t, [f EXCEPT !.pc = "once"])
          /\ UNCHANGED <<res, VALUE_ONCE, mutex, aborted, staticFailed>>
       \/ /\ VALUE_ONCE[img][k] = "new"
          /\ ~Installed(HOST_STATICS, img)   \* expect("host static storage improperly initialized")
          /\ PanicInInitializer(t, f, "none", "static_slot", {<<img, k>>})
       \/ /\ VALUE_ONCE[img][k] = "new"
          /\ Installed(HOST_STATICS, img)
          /\ VALUE_ONCE' = [VALUE_ONCE EXCEPT ![img][k] = "running"]
          /\ stack' = Push(t, f)
          /\ UNCHANGED <<res, mutex, aborted, staticFailed>>
    /\ UNCHANGED <<PLUGIN_TLS, PLUGIN_STATIC, PLUGIN_STATIC_ONCE, slots, TLS_VALUE,
                   STATIC_VALUE, heap, tlsEpoch, staticEpoch, staticInits, staticDone,
                   tlsFirst, program>>

\* The programs whose initializers access the registries: one thread.
NestedPrograms ==
    { [threads |-> {"t1"}, tls |-> Ids,    statics |-> {}],
      [threads |-> {"t1"}, tls |-> {},     statics |-> Ids],
      [threads |-> {"t1"}, tls |-> {"k1"}, statics |-> {"k2"}] }

InitNested == Start(NestedPrograms)
NextNested ==
    \/ Next
    \/ \E t \in Threads, img \in Images, k \in Ids : TlsNested(t, img, k)
    \/ \E t \in Threads, img \in Images, k \in Ids : StaticNested(t, img, k)
NestedSpec == InitNested /\ [][NextNested]_vars

(* ----------------------- waiting and fairness -------------------------- *)
\* deref while another thread runs the declaration's VALUE_ONCE.call_once: the
\* call waits in call_once.
StaticDerefWaits(t, img, k) ==
    /\ Alive
    /\ k \in staticDecls
    /\ Idle(t)
    /\ VALUE_ONCE[img][k] = "running"
    /\ stack' = Push(t, [Frame("static", img, k, "once") EXCEPT
                            !.e0 = staticEpoch, !.after = staticFailed[Identifier(img, k)],
                            !.afterOther = (\E j \in Ids \ {Identifier(img, k)} : staticFailed[j])])
    /\ UNCHANGED <<registry, slots, caches, heap, res, aborted, history>>

\* The Once the call waits for is finished: VALUE.assume_init_read() when it
\* completed, a panic when it was poisoned.
StaticOnceFinished(t) ==
    /\ Alive
    /\ InCall(t, "static", "once")
    /\ Len(stack[t]) = 1
    /\ LET f == Top(t) IN
       \/ /\ VALUE_ONCE[f.img][f.k] = "done"
          /\ res' = [res EXCEPT ![t] = Result(f, "ok", "cache", STATIC_VALUE[f.img][f.k])]
       \/ /\ VALUE_ONCE[f.img][f.k] = "poisoned"
          /\ res' = [res EXCEPT ![t] = Result(f, "panic", "none", Null)]
    /\ stack' = Pop(t)
    /\ UNCHANGED <<registry, slots, caches, heap, aborted, history>>

\* The images whose slots hold the accessors (the host, and a plugin once it
\* has called Context::initialize, which it must do before any access).
InstalledImages == {i \in Images : HOST_TLS[i] /\ HOST_STATICS[i]}

\* The programs whose threads call the accessors concurrently.
LivePrograms ==
    { [threads |-> Threads, tls |-> {"k1"}, statics |-> {}],
      [threads |-> Threads, tls |-> {},     statics |-> {"k1"}],
      [threads |-> Threads, tls |-> {},     statics |-> Ids],
      [threads |-> {"t1"},  tls |-> {"k1"}, statics |-> {"k2"}] }

\* A call in progress of thread t goes on; its initializer returns.
Continue(t) ==
    \/ TlsInitReturns(t)
    \/ StaticOnceFinished(t)
    \/ StaticGetStatic(t)
    \/ StaticLock(t)
    \/ StaticInitReturns(t)
    \/ StaticReturn(t)

InitLive == Start(LivePrograms)
NextLive ==
    \/ \E t \in Threads, img \in InstalledImages, k \in Ids : TlsWith(t, img, k)
    \/ \E t \in Threads, img \in InstalledImages, k \in Ids : StaticDeref(t, img, k)
    \/ \E t \in Threads, img \in InstalledImages, k \in Ids : StaticDerefWaits(t, img, k)
    \/ \E t \in Threads : Continue(t)
    \/ \E t \in Threads : Install(t, "plugin")
    \/ \E t \in Threads : Resume(t)

\* Every thread is scheduled again and again, and initializers return.
LiveSpec == InitLive /\ [][NextLive]_vars /\ \A t \in Threads : WF_vars(Continue(t))

(* ------------------------ building identifiers ------------------------- *)
\* The texts a declaration is made of: stringify!($name), stringify!($t) and
\* module_path!() are strings, here sequences of characters.
Chars       == {"a", "b"}
Texts(n)    == UNION {[1..l -> Chars] : l \in 1..n}
Names       == Texts(MaxText)
Types       == Texts(MaxText)
ModulePaths == Texts(1)
Declarations == [name : Names, ty : Types, path : ModulePaths]

\* std::concat!(std::stringify!($name), std::stringify!($t), std::module_path!())
DeclIdentifier(d) == d.name \o d.ty \o d.path

\* The macro is expanded for declaration d: its identifier is built.
Declare(d) ==
    /\ Cardinality(decls) < NDecls
    /\ decls' = decls \cup {[decl |-> d, id |-> DeclIdentifier(d)]}
    /\ UNCHANGED <<registry, slots, caches, heap, stack, res, aborted, tlsEpoch, staticEpoch,
                   staticInits, staticDone, staticFailed, tlsFirst, running, tlsDecls,
                   staticDecls>>

\* Nothing runs yet: the declarations of the images are being compiled.
InitDecl == Start({[threads |-> {}, tls |-> {}, statics |-> {}]})
NextDecl == \E d \in Declarations : Declare(d)
DeclSpec == InitDecl /\ [][NextDecl]_vars

(* ------------------------------ claims --------------------------------- *)
\* The finished call of thread t reached the registry accessor (host::tls or
\* host::statics) and came back with an address.
TlsReturned(t)    == res[t].op = "tls" /\ res[t].status = "ok" /\ res[t].hit = "registry"
StaticReturned(t) == res[t].op = "static" /\ res[t].status = "ok" /\ res[t].hit = "registry"

\* C1: when several threads access the same static identifier for the first
\* time concurrently, the initializer of the identifier runs exactly once (no
\* clear of the registry in between) and every one of these accesses returns
\* the same address, the address of the identifier's registry entry.
C1_ConcurrentFirstAccessInitOnce ==
    /\ \A k \in Ids : staticInits[k] <= 1
    /\ \A t \in Threads :
          (StaticReturned(t) /\ res[t].e0 = staticEpoch) =>
             /\ staticInits[res[t].k] = 1
             /\ res[t].out = PLUGIN_STATIC[res[t].k]
             /\ res[t].out = staticDone[res[t].k]
    /\ \A t, u \in Threads :
          (/\ StaticReturned(t) /\ res[t].e0 = staticEpoch
           /\ StaticReturned(u) /\ res[u].e0 = staticEpoch
           /\ res[t].k = res[u].k) => res[t].out = res[u].out

\* Two threads made their first access to k1 while no access to it had
\* finished, and both have returned: one ran the initializer, the other did not.
C1_Witness ==
    /\ StaticReturned("t1") /\ StaticReturned("t2")
    /\ res["t1"].k = "k1" /\ res["t2"].k = "k1"
    /\ res["t1"].e0 = staticEpoch /\ res["t2"].e0 = staticEpoch
    /\ res["t1"].seen = Null /\ res["t2"].seen = Null
    /\ res["t1"].ran /\ ~res["t2"].ran
    /\ res["t1"].out = res["t2"].out

\* C2: once the plugin image has installed the host's Context, and with no
\* reset, the handle of static identifier K in the host image and the handle of
\* K in the plugin image resolve to one registry entry: one run of the
\* initializer in total, one address, hence one value seen through both.
C2_CrossImageSharing ==
    \A k \in Ids :
       (/\ staticEpoch = 0
        /\ VALUE_ONCE["host"][k] = "done"
        /\ VALUE_ONCE["plugin"][k] = "done") =>
          /\ HOST_STATICS["plugin"]
          /\ staticInits[k] = 1
          /\ STATIC_VALUE["host"][k] = PLUGIN_STATIC[k]
          /\ STATIC_VALUE["plugin"][k] = PLUGIN_STATIC[k]
          /\ heap[STATIC_VALUE["host"][k]] # Free
          /\ heap[STATIC_VALUE["host"][k]] = heap[STATIC_VALUE["plugin"][k]]

\* Both images have resolved k1, the value was changed through the host's
\* handle, and a thread now holds it through the plugin's handle.
C2_Witness ==
    /\ staticEpoch = 0
    /\ VALUE_ONCE["host"]["k1"] = "done"
    /\ VALUE_ONCE["plugin"]["k1"] = "done"
    /\ \E t \in Threads :
          /\ res[t].op = "static" /\ res[t].status = "ok"
          /\ res[t].img = "plugin" /\ res[t].k = "k1"
          /\ heap[res[t].out] = MaxVal
          /\ heap[STATIC_VALUE["host"]["k1"]] = MaxVal

\* C3: on one thread, with no reset by that thread in between, every access
\* through the same LocalKey after the first one does not run the initializer
\* and returns the address the first access returned.
C3_TlsIdempotent ==
    \A t \in Threads :
       (res[t].op = "tls" /\ res[t].status = "ok" /\ res[t].seen # Null) =>
          /\ ~res[t].ran
          /\ res[t].out = res[t].seen

\* A second access through the same LocalKey has returned.
C3_Witness ==
    \E t \in Threads :
       /\ res[t].op = "tls" /\ res[t].status = "ok"
       /\ res[t].seen # Null /\ res[t].out = res[t].seen
       /\ tlsEpoch[t] = 0

\* C4: host::tls never hands a thread an entry of another thread's registry:
\* the address it returns to thread t is the address of t's own entry for the
\* identifier and of no entry of any other thread, and when t's own registry
\* had no entry for the identifier the initializer ran on t, whatever the other
\* threads' registries hold.
C4_ThreadIsolation ==
    \A t \in Threads :
       TlsReturned(t) =>
          /\ PLUGIN_TLS[t][res[t].k] = res[t].out
          /\ \A u \in Threads \ {t} : res[t].out \notin Boxes(PLUGIN_TLS[u])
          /\ ~res[t].had => res[t].ran

\* t2 made its first access to k1 when t1 already had its entry for k1.
C4_Witness ==
    /\ TlsReturned("t2") /\ res["t2"].k = "k1" /\ res["t2"].ran
    /\ PLUGIN_TLS["t1"]["k1"] # Null
    /\ PLUGIN_TLS["t2"]["k1"] # Null
    /\ PLUGIN_TLS["t1"]["k1"] # PLUGIN_TLS["t2"]["k1"]

\* C5: once a call of host::statics for identifier K has returned, a call for K
\* that begins afterwards, with no reset in between, does not run the
\* initializer, and when it returns it returns that same entry.
C5_StaticSharing ==
    \A t \in Threads :
       /\ (/\ res[t].op = "static" /\ res[t].hit = "registry"
           /\ res[t].e0 = staticEpoch /\ res[t].seen # Null) =>
             /\ ~res[t].ran
             /\ res[t].status = "ok" => res[t].out = res[t].seen
       /\ (/\ stack[t] # << >> /\ Top(t).op = "static"
           /\ Top(t).e0 = staticEpoch /\ Top(t).seen # Null) => ~Top(t).ran

\* A call for k1 that began after another one had returned has returned too.
C5_Witness ==
    \E t \in Threads :
       /\ StaticReturned(t) /\ res[t].k = "k1"
       /\ res[t].e0 = staticEpoch /\ res[t].seen # Null
       /\ res[t].out = res[t].seen

\* C6: after reset() has returned, the next access to a value that was
\* initialized before the reset, a thread-local through LocalKey::with on the
\* resetting thread or a static through its handle, runs the initializer again
\* and yields the entry the registry now holds for the identifier.
C6_ResetReinitializes ==
    \A t \in Threads :
       /\ (/\ res[t].op = "tls" /\ res[t].status = "ok"
           /\ tlsEpoch[t] > 0 /\ res[t].seen = Null) =>
             /\ res[t].ran
             /\ res[t].out = PLUGIN_TLS[t][res[t].k]
       /\ (/\ res[t].op = "static" /\ res[t].status = "ok"
           /\ staticEpoch > 0 /\ res[t].e0 = staticEpoch) =>
             res[t].out = PLUGIN_STATIC[res[t].k]

\* C7: between resets no step replaces or removes an entry of a thread-local or
\* static registry or frees its box: an identifier that has an entry keeps it,
\* at the same address, through every later insertion into the same map.
C7_AppendOnly ==
    [][ /\ \A t \in Threads, k \in Ids :
              (tlsEpoch'[t] = tlsEpoch[t] /\ PLUGIN_TLS[t][k] # Null) =>
                 /\ PLUGIN_TLS'[t][k] = PLUGIN_TLS[t][k]
                 /\ heap'[PLUGIN_TLS[t][k]] # Free
        /\ \A k \in Ids :
              (staticEpoch' = staticEpoch /\ PLUGIN_STATIC[k] # Null) =>
                 /\ PLUGIN_STATIC'[k] = PLUGIN_STATIC[k]
                 /\ heap'[PLUGIN_STATIC[k]] # Free ]_vars

\* A second identifier was inserted into a map after k1's address had been
\* returned, and k1's entry is still at that address.
C7_Witness ==
    \/ /\ staticDone["k1"] # Null /\ staticDone["k2"] # Null
       /\ PLUGIN_STATIC = staticDone
       /\ \E t \in Threads : StaticReturned(t) /\ res[t].k = "k2" /\ res[t].ran
    \/ /\ TlsReturned("t1") /\ res["t1"].k = "k2" /\ res["t1"].ran
       /\ tlsEpoch["t1"] = 0
       /\ PLUGIN_TLS["t1"]["k1"] = tlsFirst["t1"]["host"]["k1"]
       /\ PLUGIN_TLS["t1"]["k1"] # Null

\* C8: an access to static K whose initializer panicked leaves K out of the
\* registry, and an access to K that begins after it runs the initializer again
\* and, when that run succeeds, returns the entry it created.
C8_StaticInitFailureRetried ==
    \A t \in Threads :
       res[t].op = "static" =>
          /\ (res[t].status = "panic" /\ res[t].ran) => PLUGIN_STATIC[res[t].k] = Null
          /\ res[t].after =>
                /\ res[t].ran
                /\ res[t].status = "ok" => res[t].out = PLUGIN_STATIC[res[t].k]

\* C9: when the initializer of thread-local K panics during an access on thread
\* T, the panic reaches the caller on T (the process goes on), T's registry has
\* no entry for K, and VALUE is left unset so that the next access starts over.
C9_TlsInitFailureReachesCaller ==
    /\ aborted # "tls_init"
    /\ \A t \in Threads :
          (res[t].op = "tls" /\ res[t].status = "panic" /\ res[t].ran) =>
             /\ PLUGIN_TLS[t][res[t].k] = Null
             /\ TLS_VALUE[res[t].img][t][res[t].k] = Null

\* C10: in an image whose slots Context::initialize has not filled, every
\* thread-local or static access ends in a panic (or the abort it turns into)
\* before the accessor is called: no initializer runs and no registry is reached.
C10_UninstalledAccessFails ==
    \A t \in Threads :
       /\ (res[t].op = "tls" /\ ~HOST_TLS[res[t].img]) =>
             res[t].status = "panic" /\ ~res[t].ran /\ res[t].hit = "none"
       /\ (res[t].op = "static" /\ ~HOST_STATICS[res[t].img]) =>
             res[t].status = "panic" /\ ~res[t].ran /\ res[t].hit = "none"
       /\ (stack[t] # << >> /\ Top(t).op = "tls") => HOST_TLS[Top(t).img]
       /\ (stack[t] # << >> /\ Top(t).op = "static" /\ Top(t).pc # "get_static") =>
             HOST_STATICS[Top(t).img]

\* Thread-local and static accesses through the plugin's declarations have
\* failed (panic caught, or process aborted) while the slots were still empty.
C10_Witness ==
    /\ ~HOST_TLS["plugin"] /\ ~HOST_STATICS["plugin"]
    /\ \/ \E t \in Threads :
             /\ res[t].op \in {"tls", "static"}
             /\ res[t].img = "plugin" /\ res[t].status = "panic"
       \/ aborted = "tls_slot"

\* C11: on one thread (thread-local registry) or in the process (static
\* registry), the step that inserts the entry of identifier K1 changes the
\* registry at K1 only: every other identifier K2 keeps its presence or
\* absence, its address and its value, the new entry is at an address no other
\* identifier has, and the address the accessor hands back for K1 is the
\* address of no other identifier's entry.
C11_IdentifierIndependence ==
    [][ /\ \A t \in Threads :
              (tlsEpoch'[t] = tlsEpoch[t] /\ PLUGIN_TLS'[t] # PLUGIN_TLS[t]) =>
                 \E k1 \in Ids :
                    /\ PLUGIN_TLS[t][k1] = Null /\ PLUGIN_TLS'[t][k1] # Null
                    /\ \A k2 \in Ids \ {k1} :
                          /\ PLUGIN_TLS'[t][k2] = PLUGIN_TLS[t][k2]
                          /\ PLUGIN_TLS'[t][k2] # PLUGIN_TLS'[t][k1]
                          /\ PLUGIN_TLS[t][k2] # Null =>
                                heap'[PLUGIN_TLS[t][k2]] = heap[PLUGIN_TLS[t][k2]]
        /\ (staticEpoch' = staticEpoch /\ PLUGIN_STATIC' # PLUGIN_STATIC) =>
              \E k1 \in Ids :
                 /\ PLUGIN_STATIC[k1] = Null /\ PLUGIN_STATIC'[k1] # Null
                 /\ \A k2 \in Ids \ {k1} :
                       /\ PLUGIN_STATIC'[k2] = PLUGIN_STATIC[k2]
                       /\ PLUGIN_STATIC'[k2] # PLUGIN_STATIC'[k1]
                       /\ PLUGIN_STATIC[k2] # Null =>
                             heap'[PLUGIN_STATIC[k2]] = heap[PLUGIN_STATIC[k2]]
        /\ \A t \in Threads, k2 \in Ids :
              /\ (TlsReturned(t)' /\ k2 # res'[t].k) => PLUGIN_TLS'[t][k2] # res'[t].out
              /\ (StaticReturned(t)' /\ res'[t].e0 = staticEpoch' /\ k2 # res'[t].k) =>
                    PLUGIN_STATIC'[k2] # res'[t].out ]_vars

\* k2 was initialized on t1 after k1 had been initialized and its value
\* changed: both have entries, at different addresses, and k1 kept its value.
C11_Witness ==
    \/ /\ TlsReturned("t1") /\ res["t1"].k = "k2" /\ res["t1"].ran
       /\ tlsEpoch["t1"] = 0
       /\ PLUGIN_TLS["t1"]["k1"] # Null
       /\ heap[PLUGIN_TLS["t1"]["k1"]] = MaxVal
       /\ heap[res["t1"].out] = 0
    \/ /\ StaticReturned("t1") /\ res["t1"].k = "k2" /\ res["t1"].ran
       /\ staticEpoch = 0
       /\ PLUGIN_STATIC["k1"] # Null
       /\ heap[PLUGIN_STATIC["k1"]] = MaxVal
       /\ heap[res["t1"].out] = 0

\* C12: the identifiers built for two declarations are the same string if and
\* only if the declarations have the same name, the same type text and the
\* same module path.
C12_IdentifierInjective ==
    \A x, y \in decls :
       (x.id = y.id) <=>
          (/\ x.decl.name = y.decl.name
           /\ x.decl.ty = y.decl.ty
           /\ x.decl.path = y.decl.path)

\* C13: the step on which reset() returns to thread t leaves t's thread-local
\* registry with no entries and the static registry with no entries, and every
\* box the static registry held is freed, whatever the registries held before.
C13_ResetClearsBoth ==
    [][ \A t \in Threads :
           (/\ InCall(t, "reset", "static")
            /\ res'[t].op = "reset" /\ res'[t].status = "ok") =>
              /\ \A k \in Ids : PLUGIN_TLS'[t][k] = Null
              /\ \A k \in Ids : PLUGIN_STATIC'[k] = Null
              /\ \A k \in Ids : PLUGIN_STATIC[k] # Null => heap'[PLUGIN_STATIC[k]] = Free ]_vars

\* reset() has returned on t1, which had initialized thread-local k1 and
\* static k2 before (its handles still cache their addresses).
C13_Witness ==
    /\ res["t1"].op = "reset" /\ res["t1"].status = "ok"
    /\ TLS_VALUE["host"]["t1"]["k1"] # Null
    /\ STATIC_VALUE["host"]["k2"] # Null
    /\ PLUGIN_TLS["t1"] = EmptyMap
    /\ PLUGIN_STATIC = EmptyMap

\* C14: after a run of the initializer of static K1 has panicked, every later
\* access that reaches a registry accessor for another static identifier K2 or
\* for a thread-local identifier comes back with the identifier's entry, as it
\* would have without the failure (unless its own initializer panics).
C14_ErrorsConfined ==
    \A t \in Threads :
       /\ (/\ res[t].op = "static" /\ res[t].afterOther /\ ~res[t].after
            /\ res[t].hit = "registry" /\ ~res[t].ran) =>
              /\ res[t].status = "ok"
              /\ res[t].out = PLUGIN_STATIC[res[t].k]
       /\ (/\ res[t].op = "tls" /\ res[t].afterOther
            /\ res[t].hit = "registry" /\ ~res[t].ran) =>
              /\ res[t].status = "ok"
              /\ res[t].out = PLUGIN_TLS[t][res[t].k]

\* C18: a step of reset() on thread A leaves the thread-local registry of every
\* other thread B as it was, entry by entry, with every box of B alive and its
\* value unchanged; and an access of B that begins after A's reset began (B
\* not resetting itself since) to an identifier B had initialized before does
\* not run the initializer and returns what B's earlier access returned, which
\* is the entry B's registry holds when B has never reset.
C18_ResetLeavesOtherThreads ==
    [][ /\ \A a \in Threads, b \in Threads :
              (/\ a # b
               /\ \/ tlsEpoch'[a] # tlsEpoch[a]
                  \/ InCall(a, "reset", "static") /\ stack'[a] # stack[a]) =>
                 /\ PLUGIN_TLS'[b] = PLUGIN_TLS[b]
                 /\ \A k \in Ids :
                       PLUGIN_TLS[b][k] # Null =>
                          heap'[PLUGIN_TLS[b][k]] = heap[PLUGIN_TLS[b][k]]
        /\ \A a \in Threads, b \in Threads :
              (/\ a # b
               /\ res'[a].op = "reset" /\ res'[a].had
               /\ res'[a].e0 = ResetsBegun' - tlsEpoch'[a]
               /\ res'[b].op = "tls" /\ res'[b].status = "ok" /\ res'[b].seen # Null) =>
                 /\ ~res'[b].ran
                 /\ res'[b].out = res'[b].seen
                 /\ tlsEpoch'[b] = 0 =>
                       /\ res'[b].out = PLUGIN_TLS'[b][res'[b].k]
                       /\ heap'[res'[b].out] # Free ]_vars

\* t1's reset() began when t2 had entries and was outside any call, and has
\* returned; t2 then accessed an identifier it had initialized before.
C18_Witness ==
    /\ res["t1"].op = "reset" /\ res["t1"].status = "ok" /\ res["t1"].had
    /\ res["t2"].op = "tls" /\ res["t2"].status = "ok"
    /\ res["t2"].seen # Null
    /\ tlsEpoch["t2"] = 0
    /\ PLUGIN_TLS["t2"]["k1"] = res["t2"].out

\* C15: an access that the initializer of K1 makes to a different identifier K2
\* of the same registry goes through: on a thread-local registry the nested
\* call of the accessor raises no panic of its own (it returns K2's entry, or
\* fails only with K2's initializer), and on the static registry the nested
\* call never waits for the lock its own thread holds.
C15_NestedOtherIdentifierAllowed ==
    \A t \in Threads :
       /\ (/\ res[t].op = "tls" /\ res[t].withinOp = "tls"
            /\ res[t].within # res[t].k /\ res[t].hit = "registry") =>
              (res[t].status = "ok" \/ res[t].ran)
       /\ ~(/\ stack[t] # << >>
             /\ Top(t).op = "static" /\ Top(t).withinOp = "static"
             /\ Top(t).within # Top(t).k
             /\ Top(t).pc = "lock" /\ mutex.holder = t)

\* Thread t is in a call of the static accessor's path for K made by the
\* initializer of static K itself.
ReentrantStatic(t) ==
    /\ stack[t] # << >>
    /\ Top(t).op = "static" /\ Top(t).withinOp = "static"
    /\ Top(t).within = Top(t).k

\* C16: when the initializer of static K accesses K again, the nested call
\* never finishes, neither with an address nor with an error: the thread stays
\* in it, holding the static lock, at the lock (or at the Once of the
\* declaration it is initializing), and the initializer never goes on.
C16_ReentrantStaticDeadlocks ==
    [][ \A t \in Threads :
           /\ ReentrantStatic(t) =>
                 /\ ReentrantStatic(t)'
                 /\ Len(stack'[t]) = Len(stack[t])
                 /\ Top(t)'.pc \in {"once", "get_static", "lock"}
                 /\ mutex'.holder = t
                 /\ res'[t] = res[t]
                 /\ aborted' = aborted
           /\ ReentrantStatic(t)' => Top(t)'.pc \in {"once", "get_static", "lock"}
           /\ ~(/\ res'[t].op = "static" /\ res'[t].withinOp = "static"
                 /\ res'[t].within = res'[t].k /\ res'[t].hit = "registry") ]_vars

\* The initializer of static k1 (host's declaration) accessed k1 through the
\* plugin's declaration: the nested call is at the lock its thread holds.
C16_Witness ==
    /\ ReentrantStatic("t1")
    /\ Top("t1").pc = "lock"
    /\ mutex.holder = "t1"
    /\ stack["t1"][1].pc = "init"

C19_EveryAccessTerminates ==
    \A t \in Threads :
       (stack[t] # << >>) ~>
          (stack[t] = << >> /\ res[t].status = "ok" /\ res[t].out # Null)

\* Two threads raced for static k1: t2 set out before any access had finished,
\* found the entry t1's initializer made once it had the lock, and both returned.
C19_Witness ==
    /\ StaticReturned("t1") /\ res["t1"].k = "k1" /\ res["t1"].ran
    /\ StaticReturned("t2") /\ res["t2"].k = "k1" /\ res["t2"].had
    /\ res["t2"].seen = Null
    /\ ~mutex.poisoned /\ mutex.holder = NoThread

====
